---- MODULE Spec2Model ----
(***************************************************************************)
(* Phoenix Wolf Systems - Sovereign OS Cloudflare Worker                   *)
(* (src/workers/worker.js).                                                *)
(*                                                                         *)
(* worker.js holds two generations of the worker in one script.  Function  *)
(* declarations are hoisted and a later declaration of a name replaces an  *)
(* earlier one, so the handlers that run are handleRequest (495-516) and   *)
(* the handlers it routes to (518-659).  The model is of those.  Of the    *)
(* first generation (17-451) the model keeps only the record it may have   *)
(* left behind in SECRETS_KV before the second generation was appended:    *)
(* the initialization flag 'secrets_initialized' (line 122).               *)
(*                                                                         *)
(* A request is a process: every `await` of a KV operation or of the       *)
(* outbound fetch is a point where the awaited operation may reject and    *)
(* where another request may run, so a handler is one action per awaited   *)
(* operation.  A read is one step with the decision taken on its result;   *)
(* a put is one step with the synchronous code that prepares it.           *)
(*                                                                         *)
(* The three KV namespaces are bound (wrangler.toml, deployment guide      *)
(* step 2), so the `typeof X_KV !== "undefined"` guards hold, and          *)
(* ADMIN_HANDLE is its fallback "Keli".                                    *)
(***************************************************************************)
EXTENDS Naturals, Sequences, FiniteSets, TLC

VARIABLES
    SETUP_TOKEN,  \* the setup credential bound to the worker, or Undefined
    now,          \* Date.now()
    budget,       \* number of requests the environment still sends
    SECRETS_KV,   \* key -> [value, expiration]
    SESSIONS_KV,  \* key -> [value, expiration]
    AUDIT_KV,     \* key -> [value, expiration]
    req,          \* per slot: the request in flight, its position and its locals
    last          \* the response sent last: the handler, the puts it had made, the audit
                  \* entries among them, the response

vars == <<SETUP_TOKEN, now, budget, SECRETS_KV, SESSIONS_KV, AUDIT_KV, req, last>>

-----------------------------------------------------------------------------
(* Bounds of the model. *)

\* requests sent in one behaviour
MaxRequests == 3

\* requests that may be in flight at the same time
Slots == {1, 2}

-----------------------------------------------------------------------------
(* Values. *)

Undefined == "<undefined>"      \* typeof X === "undefined"
Null == "<null>"                \* null: kv.get of an absent key, searchParams.get of an absent parameter
NoExpiration == 0               \* a put without expirationTtl

ADMIN_HANDLE == "Keli"

-----------------------------------------------------------------------------
(* The KV namespaces. *)

EmptyKV == << >>

\* kv.put(key, value): no handler of the second generation passes expirationTtl.
Put(kv, key, value) ==
    [k \in (DOMAIN kv) \cup {key} |->
        IF k = key THEN [value |-> value, expiration |-> NoExpiration] ELSE kv[k]]

\* A record whose expiration has passed is gone for every reader.
Live(kv) == { k \in DOMAIN kv : kv[k].expiration = NoExpiration \/ kv[k].expiration > now }

\* kv.get(key) is not null
Has(kv, key) == key \in Live(kv)

\* kv.get(key)
Get(kv, key) == kv[key].value

\* kvPut(kv, key, obj): JSON.stringify(obj) is stored, kvGet parses it back.
kvPut(kv, key, obj) == Put(kv, key, obj)

\* Every random identifier differs from the ones drawn before: the draw and
\* the put that stores it under a new key are one step.
Fresh(kv) == ToString(Cardinality(DOMAIN kv))

\* json(body, status)
json(body, status) == [status |-> status, body |-> body]

\* AuditKey without its random part.
AuditKeyWithoutRand == <<now, "">>

\* `audit:${Date.now()}:${Math.random().toString(36).slice(2,8)}`
AuditKey == <<now, Fresh(AUDIT_KV)>>

\* await kvPut(AUDIT_KV, `audit:...`, { time, admin: ADMIN_HANDLE, event, details })
WriteAudit(event, details) ==
    kvPut(AUDIT_KV, AuditKey,
          [time |-> now, admin |-> ADMIN_HANDLE, event |-> event, details |-> details])

-----------------------------------------------------------------------------
(* Requests. *)

Idle == [op |-> "none", pc |-> "idle"]

InFlight(r) == req[r] # Idle

\* handleRequest takes a request: it runs in the lowest free slot.
Dispatch(r) ==
    /\ req[r] = Idle
    /\ \A s \in Slots : s < r => req[s] # Idle
    /\ budget > 0
    /\ budget' = budget - 1

\* The audit entries the request in slot r has written so far.
AuditsSoFar(r) == IF req[r] = Idle THEN 0 ELSE req[r].audits

\* The handler returns.
Respond(r, op, puts, response) ==
    /\ req' = [req EXCEPT ![r] = Idle]
    /\ last' = [op |-> op, puts |-> puts, audits |-> AuditsSoFar(r), resp |-> response]

\* The handler returns from the step that writes an audit entry.
RespondAudited(r, op, puts, response) ==
    /\ req' = [req EXCEPT ![r] = Idle]
    /\ last' = [op |-> op, puts |-> puts, audits |-> AuditsSoFar(r) + 1, resp |-> response]

\* The handler goes on to its next awaited operation.
Goto(r, locals) ==
    /\ req' = [req EXCEPT ![r] = locals]
    /\ UNCHANGED last

At(r, op, pc) == req[r].op = op /\ req[r].pc = pc

\* An awaited operation rejects, or req.json() does: the exception reaches
\* handleRequest's catch, which answers 500 with the error's message.
Exception(awaited) == json([error |-> "exception", awaited |-> awaited], 500)

-----------------------------------------------------------------------------
(* POST /api/store-secrets *)

\* The record the first generation's handleStoreSecrets leaves in SECRETS_KV.
FlagKey == "secrets_initialized"

\* A body req.json() rejects.
InvalidJson == [json |-> FALSE]

\* The payload that configures one OAuth provider.
StripeConfig ==
    << <<"OAUTH_STRIPE_CLIENT_ID", "cid">>, <<"OAUTH_STRIPE_AUTH_URL", "https://auth">>,
       <<"OAUTH_REDIRECT_URI", "https://cb">>, <<"OAUTH_STRIPE_TOKEN_URL", "https://token">> >>

\* Object.entries(body.secrets) of the payloads explored, in insertion order.
SecretMaps ==
    { << <<"API_KEY", "v1">> >>,
      << <<FlagKey, "false">>, <<"API_KEY", "v2">> >>,
      StripeConfig }

StoreSecretsBodies ==
    {InvalidJson, [json |-> TRUE, other |-> "x"]}
      \cup { [json |-> TRUE, secrets |-> m] : m \in SecretMaps }

Credentials == {"", "tok", "bad"}

\* The key names of a secrets map, in its order.
Keys(m) == [i \in 1..Len(m) |-> m[i][1]]

\* SecretKey without its prefix: a secret named like the flag lands on the flag.
SecretKeyUnprefixed(k) == k

\* `secret:${k}`
SecretKey(k) == "secret:" \o k

\* StoreSecretsBegin parsing the body before it looks at the credential.
StoreSecretsBeginBodyFirst(r, provided, body) ==
    /\ Dispatch(r)
    /\ IF ~body.json THEN
            Respond(r, "store-secrets", 0, json([error |-> "invalid json"], 400))
       ELSE IF "secrets" \notin DOMAIN body THEN
            Respond(r, "store-secrets", 0,
                    json([error |-> "invalid payload: {secrets:{...}} expected"], 400))
       ELSE IF provided = "" THEN
            Respond(r, "store-secrets", 0, json([error |-> "missing setup token"], 401))
       ELSE IF SETUP_TOKEN = Undefined THEN
            Respond(r, "store-secrets", 0,
                    json([error |-> "worker not configured with SETUP_TOKEN"], 500))
       ELSE IF provided # SETUP_TOKEN THEN
            Respond(r, "store-secrets", 0, json([error |-> "invalid setup token"], 403))
       ELSE
            Goto(r, [op |-> "store-secrets", pc |-> "put", puts |-> 0, audits |-> 0,
                     secrets |-> body.secrets, stored |-> << >>])
    /\ UNCHANGED <<SETUP_TOKEN, now, SECRETS_KV, SESSIONS_KV, AUDIT_KV>>

\* handleStoreSecrets up to the loop: the credential and the body.
StoreSecretsBegin(r, provided, body) ==
    /\ Dispatch(r)
    /\ IF provided = "" THEN
            Respond(r, "store-secrets", 0, json([error |-> "missing setup token"], 401))
       ELSE IF SETUP_TOKEN = Undefined THEN
            Respond(r, "store-secrets", 0,
                    json([error |-> "worker not configured with SETUP_TOKEN"], 500))
       ELSE IF provided # SETUP_TOKEN THEN
            Respond(r, "store-secrets", 0, json([error |-> "invalid setup token"], 403))
       ELSE IF ~body.json THEN
            Respond(r, "store-secrets", 0, json([error |-> "invalid json"], 400))
       ELSE IF "secrets" \notin DOMAIN body THEN
            Respond(r, "store-secrets", 0,
                    json([error |-> "invalid payload: {secrets:{...}} expected"], 400))
       ELSE
            Goto(r, [op |-> "store-secrets", pc |-> "put", puts |-> 0, audits |-> 0,
                     secrets |-> body.secrets, stored |-> << >>])
    /\ UNCHANGED <<SETUP_TOKEN, now, SECRETS_KV, SESSIONS_KV, AUDIT_KV>>

\* StoreSecretsPut marking the namespace initialized before its first write.
StoreSecretsPutFlagFirst(r) ==
    /\ At(r, "store-secrets", "put")
    /\ LET m == req[r].secrets
           i == Len(req[r].stored) + 1
       IN /\ SECRETS_KV' = Put(Put(SECRETS_KV, FlagKey, "true"), "secret:" \o m[i][1], m[i][2])
          /\ Goto(r, [req[r] EXCEPT !.stored = Append(@, m[i][1]),
                                    !.puts = @ + 1,
                                    !.pc = IF i = Len(m) THEN "audit" ELSE "put"])
    /\ UNCHANGED <<SETUP_TOKEN, now, budget, SESSIONS_KV, AUDIT_KV>>

\* StoreSecretsPut behind a gate: it looks at the flag before each write,
\* refuses when the flag is set and sets it with its write.
StoreSecretsPutGated(r) ==
    /\ At(r, "store-secrets", "put")
    /\ LET m == req[r].secrets
           i == Len(req[r].stored) + 1
       IN IF i = 1 /\ Has(SECRETS_KV, FlagKey) /\ Get(SECRETS_KV, FlagKey) = "true" THEN
               /\ Respond(r, "store-secrets", req[r].puts,
                          json([error |-> "already initialized"], 403))
               /\ UNCHANGED SECRETS_KV
          ELSE
               /\ SECRETS_KV' = Put(Put(SECRETS_KV, "secret:" \o m[i][1], m[i][2]), FlagKey, "true")
               /\ Goto(r, [req[r] EXCEPT !.stored = Append(@, m[i][1]),
                                         !.puts = @ + 1,
                                         !.pc = IF i = Len(m) THEN "audit" ELSE "put"])
    /\ UNCHANGED <<SETUP_TOKEN, now, budget, SESSIONS_KV, AUDIT_KV>>

\* One turn of the loop: await SECRETS_KV.put(`secret:${k}`, String(v)); stored.push(k)
StoreSecretsPut(r) ==
    /\ At(r, "store-secrets", "put")
    /\ LET m == req[r].secrets
           i == Len(req[r].stored) + 1
       IN /\ SECRETS_KV' = Put(SECRETS_KV, SecretKey(m[i][1]), m[i][2])
          /\ Goto(r, [req[r] EXCEPT !.stored = Append(@, m[i][1]),
                                    !.puts = @ + 1,
                                    !.pc = IF i = Len(m) THEN "audit" ELSE "put"])
    /\ UNCHANGED <<SETUP_TOKEN, now, budget, SESSIONS_KV, AUDIT_KV>>

\* StoreSecretsAudit recording the values it stored instead of their names.
StoreSecretsAuditWithValues(r) ==
    /\ At(r, "store-secrets", "audit")
    /\ AUDIT_KV' = WriteAudit("store_secrets",
                              [stored |-> [i \in 1..Len(req[r].secrets) |-> req[r].secrets[i][2]]])
    /\ RespondAudited(r, "store-secrets", req[r].puts + 1,
               json([ok |-> TRUE, stored |-> req[r].stored], 200))
    /\ UNCHANGED <<SETUP_TOKEN, now, budget, SECRETS_KV, SESSIONS_KV>>

\* The store_secrets audit entry and the response.
StoreSecretsAudit(r) ==
    /\ At(r, "store-secrets", "audit")
    /\ AUDIT_KV' = WriteAudit("store_secrets", [stored |-> req[r].stored])
    /\ RespondAudited(r, "store-secrets", req[r].puts + 1,
               json([ok |-> TRUE, stored |-> req[r].stored], 200))
    /\ UNCHANGED <<SETUP_TOKEN, now, budget, SECRETS_KV, SESSIONS_KV>>

-----------------------------------------------------------------------------
(* POST /api/create-checkout and GET /api/deliver *)

\* makeSessionId without its random part.
makeSessionIdWithoutRand == "sess_" \o ToString(now)

\* makeSessionId(): `sess_${Date.now().toString(36)}_${rand}`
makeSessionId == "sess_" \o ToString(now) \o "_" \o Fresh(SESSIONS_KV)

\* SessionKey without its prefix.
SessionKeyUnprefixed(session_id) == session_id

\* `session:${session_id}`
SessionKey(session_id) == "session:" \o session_id

\* encodeURIComponent(s): the identifiers the worker generates hold unreserved
\* characters only; of the other parameters explored, the one with a space.
encodeURIComponent(s) == IF s = "no such" THEN "no%20such" ELSE s

\* DeliveryArtifact with a part that differs from one derivation to the next.
DeliveryArtifactWithNonce(session_id) ==
    [proton_link |-> "https://proton.me/s/" \o encodeURIComponent(session_id)
                        \o "?n=" \o Fresh(AUDIT_KV)]

\* { proton_link: `https://proton.me/s/${encodeURIComponent(session_id)}` }
DeliveryArtifact(session_id) ==
    [proton_link |-> "https://proton.me/s/" \o encodeURIComponent(session_id)]

\* Delivered leaving the status as it was.
DeliveredKeepingStatus(session, deliver) ==
    [f \in (DOMAIN session) \cup {"delivered_at", "delivery"} |->
        CASE f = "delivered_at" -> now
          [] f = "delivery" -> deliver
          [] OTHER -> session[f]]

\* session.status = "delivered"; session.delivered_at = ...; session.delivery = deliver
Delivered(session, deliver) ==
    [f \in (DOMAIN session) \cup {"delivered_at", "delivery"} |->
        CASE f = "status" -> "delivered"
          [] f = "delivered_at" -> now
          [] f = "delivery" -> deliver
          [] OTHER -> session[f]]

CheckoutBodies ==
    { InvalidJson,
      [json |-> TRUE, presold |-> TRUE],
      [json |-> TRUE, sku |-> "PWS-0001", presold |-> TRUE],
      [json |-> TRUE, sku |-> "PWS-0001", presold |-> FALSE] }

\* CreateCheckoutBegin persisting the session before it looks for the sku.
CreateCheckoutBeginUnvalidated(r, body) ==
    /\ Dispatch(r)
    /\ IF ~body.json THEN
            /\ Respond(r, "create-checkout", 0, Exception("json"))
            /\ UNCHANGED SESSIONS_KV
       ELSE
            LET session_id == makeSessionId
                session == [session_id |-> session_id,
                            sku |-> IF "sku" \in DOMAIN body THEN body.sku ELSE Null,
                            user |-> Null, manifest |-> "{}", presold |-> body.presold,
                            status |-> "pending", created_at |-> now]
            IN /\ SESSIONS_KV' = kvPut(SESSIONS_KV, SessionKey(session_id), session)
               /\ IF "sku" \notin DOMAIN body
                  THEN Respond(r, "create-checkout", 1, json([error |-> "missing sku"], 400))
                  ELSE Goto(r, [op |-> "create-checkout", pc |-> "audit", puts |-> 1,
                                audits |-> 0, session |-> session])
    /\ UNCHANGED <<SETUP_TOKEN, now, SECRETS_KV, AUDIT_KV>>

\* handleCreateCheckout up to the put of the pending session record.
CreateCheckoutBegin(r, body) ==
    /\ Dispatch(r)
    /\ IF ~body.json THEN
            /\ Respond(r, "create-checkout", 0, Exception("json"))
            /\ UNCHANGED SESSIONS_KV
       ELSE IF "sku" \notin DOMAIN body THEN
            /\ Respond(r, "create-checkout", 0, json([error |-> "missing sku"], 400))
            /\ UNCHANGED SESSIONS_KV
       ELSE
            LET session_id == makeSessionId
                session == [session_id |-> session_id, sku |-> body.sku, user |-> Null,
                            manifest |-> "{}", presold |-> body.presold,
                            status |-> "pending", created_at |-> now]
            IN /\ SESSIONS_KV' = kvPut(SESSIONS_KV, SessionKey(session_id), session)
               /\ Goto(r, [op |-> "create-checkout", pc |-> "audit", puts |-> 1, audits |-> 0,
                           session |-> session])
    /\ UNCHANGED <<SETUP_TOKEN, now, SECRETS_KV, AUDIT_KV>>

\* CreateCheckoutAudit going on to the delivery of a presold session without
\* the create_checkout entry.
CreateCheckoutAuditAfterDelivery(r) ==
    /\ At(r, "create-checkout", "audit")
    /\ LET session == req[r].session IN
        IF session.presold
        THEN /\ Goto(r, [req[r] EXCEPT !.pc = "deliver"])
             /\ UNCHANGED AUDIT_KV
        ELSE /\ AUDIT_KV' = WriteAudit("create_checkout",
                                       [session_id |-> session.session_id, sku |-> session.sku,
                                        presold |-> session.presold])
             /\ RespondAudited(r, "create-checkout", req[r].puts + 1,
                        json([ok |-> TRUE, session_id |-> session.session_id], 200))
    /\ UNCHANGED <<SETUP_TOKEN, now, budget, SECRETS_KV, SESSIONS_KV>>

\* The create_checkout audit entry; a session that is not presold is answered here.
CreateCheckoutAudit(r) ==
    /\ At(r, "create-checkout", "audit")
    /\ LET session == req[r].session IN
        /\ AUDIT_KV' = WriteAudit("create_checkout",
                                  [session_id |-> session.session_id, sku |-> session.sku,
                                   presold |-> session.presold])
        /\ IF session.presold
           THEN Goto(r, [req[r] EXCEPT !.pc = "deliver", !.puts = @ + 1, !.audits = @ + 1])
           ELSE RespondAudited(r, "create-checkout", req[r].puts + 1,
                        json([ok |-> TRUE, session_id |-> session.session_id], 200))
    /\ UNCHANGED <<SETUP_TOKEN, now, budget, SECRETS_KV, SESSIONS_KV>>

\* if (session.presold): the delivered session record is put.
CreateCheckoutDeliver(r) ==
    /\ At(r, "create-checkout", "deliver")
    /\ LET session_id == req[r].session.session_id
           session == Delivered(req[r].session, DeliveryArtifact(session_id))
       IN /\ SESSIONS_KV' = kvPut(SESSIONS_KV, SessionKey(session_id), session)
          /\ Goto(r, [req[r] EXCEPT !.pc = "deliver-audit", !.puts = @ + 1,
                                    !.session = session])
    /\ UNCHANGED <<SETUP_TOKEN, now, budget, SECRETS_KV, AUDIT_KV>>

\* The auto_deliver_presold audit entry and the response with the artifact inline.
CreateCheckoutDeliverAudit(r) ==
    /\ At(r, "create-checkout", "deliver-audit")
    /\ LET session == req[r].session IN
        /\ AUDIT_KV' = WriteAudit("auto_deliver_presold", [session_id |-> session.session_id])
        /\ RespondAudited(r, "create-checkout", req[r].puts + 1,
                   json([ok |-> TRUE, session_id |-> session.session_id,
                         deliver |-> session.delivery], 200))
    /\ UNCHANGED <<SETUP_TOKEN, now, budget, SECRETS_KV, SESSIONS_KV>>

\* The checkout session records SESSIONS_KV holds.
SessionRecords ==
    { SESSIONS_KV[k].value :
        k \in { k \in DOMAIN SESSIONS_KV : "session_id" \in DOMAIN SESSIONS_KV[k].value } }

\* The session ids GET /api/deliver is asked for: none, one no handler
\* generated, and the id of every session record.
SessionIdsAsked == {Null, "no such"} \cup { s.session_id : s \in SessionRecords }

\* DeliverBegin deriving the artifact again whatever the session record holds.
DeliverBeginRegenerating(r, session_id) ==
    /\ Dispatch(r)
    /\ IF session_id = Null THEN
            Respond(r, "deliver", 0, json([error |-> "missing session_id"], 400))
       ELSE IF ~Has(SESSIONS_KV, SessionKey(session_id)) THEN
            Respond(r, "deliver", 0, json([error |-> "session not found"], 404))
       ELSE
            Goto(r, [op |-> "deliver", pc |-> "put", puts |-> 0, audits |-> 0,
                     session_id |-> session_id,
                     session |-> Get(SESSIONS_KV, SessionKey(session_id))])
    /\ UNCHANGED <<SETUP_TOKEN, now, SECRETS_KV, SESSIONS_KV, AUDIT_KV>>

\* DeliverBegin taking an absent session record for an empty one.
DeliverBeginCreating(r, session_id) ==
    /\ Dispatch(r)
    /\ IF session_id = Null THEN
            Respond(r, "deliver", 0, json([error |-> "missing session_id"], 400))
       ELSE IF ~Has(SESSIONS_KV, SessionKey(session_id)) THEN
            Goto(r, [op |-> "deliver", pc |-> "put", puts |-> 0, audits |-> 0,
                     session_id |-> session_id,
                     session |-> [session_id |-> session_id, status |-> "pending"]])
       ELSE
            LET session == Get(SESSIONS_KV, SessionKey(session_id)) IN
            IF "delivery" \notin DOMAIN session
            THEN Goto(r, [op |-> "deliver", pc |-> "put", puts |-> 0, audits |-> 0,
                          session_id |-> session_id, session |-> session])
            ELSE Respond(r, "deliver", 0,
                         json([ok |-> TRUE, session_id |-> session_id,
                               deliver |-> session.delivery], 200))
    /\ UNCHANGED <<SETUP_TOKEN, now, SECRETS_KV, SESSIONS_KV, AUDIT_KV>>

\* handleDeliver up to the read of the session record: a session that has its
\* artifact is answered here.
DeliverBegin(r, session_id) ==
    /\ Dispatch(r)
    /\ IF session_id = Null THEN
            Respond(r, "deliver", 0, json([error |-> "missing session_id"], 400))
       ELSE IF ~Has(SESSIONS_KV, SessionKey(session_id)) THEN
            Respond(r, "deliver", 0, json([error |-> "session not found"], 404))
       ELSE
            LET session == Get(SESSIONS_KV, SessionKey(session_id)) IN
            IF "delivery" \notin DOMAIN session
            THEN Goto(r, [op |-> "deliver", pc |-> "put", puts |-> 0, audits |-> 0,
                          session_id |-> session_id, session |-> session])
            ELSE Respond(r, "deliver", 0,
                         json([ok |-> TRUE, session_id |-> session_id,
                               deliver |-> session.delivery], 200))
    /\ UNCHANGED <<SETUP_TOKEN, now, SECRETS_KV, SESSIONS_KV, AUDIT_KV>>

\* DeliverPut keeping the artifact in the handler only.
DeliverPutUnpersisted(r) ==
    /\ At(r, "deliver", "put")
    /\ LET session_id == req[r].session_id
           session == Delivered(req[r].session, DeliveryArtifact(session_id))
       IN Goto(r, [req[r] EXCEPT !.pc = "audit", !.session = session])
    /\ UNCHANGED <<SETUP_TOKEN, now, budget, SECRETS_KV, SESSIONS_KV, AUDIT_KV>>

\* DeliverPut putting the session record into the Secrets namespace.
DeliverPutIntoSecrets(r) ==
    /\ At(r, "deliver", "put")
    /\ LET session_id == req[r].session_id
           session == Delivered(req[r].session, DeliveryArtifact(session_id))
       IN /\ SECRETS_KV' = kvPut(SECRETS_KV, SessionKey(session_id), session)
          /\ Goto(r, [req[r] EXCEPT !.pc = "audit", !.puts = @ + 1, !.session = session])
    /\ UNCHANGED <<SETUP_TOKEN, now, budget, SESSIONS_KV, AUDIT_KV>>

\* if (!session.delivery): the artifact is derived and the session record put.
DeliverPut(r) ==
    /\ At(r, "deliver", "put")
    /\ LET session_id == req[r].session_id
           session == Delivered(req[r].session, DeliveryArtifact(session_id))
       IN /\ SESSIONS_KV' = kvPut(SESSIONS_KV, SessionKey(session_id), session)
          /\ Goto(r, [req[r] EXCEPT !.pc = "audit", !.puts = @ + 1, !.session = session])
    /\ UNCHANGED <<SETUP_TOKEN, now, budget, SECRETS_KV, AUDIT_KV>>

\* The deliver_resolved audit entry and the response.
DeliverAudit(r) ==
    /\ At(r, "deliver", "audit")
    /\ AUDIT_KV' = WriteAudit("deliver_resolved", [session_id |-> req[r].session_id])
    /\ RespondAudited(r, "deliver", req[r].puts + 1,
               json([ok |-> TRUE, session_id |-> req[r].session_id,
                     deliver |-> req[r].session.delivery], 200))
    /\ UNCHANGED <<SETUP_TOKEN, now, budget, SECRETS_KV, SESSIONS_KV>>

-----------------------------------------------------------------------------
(* GET /api/oauth/init and GET /api/oauth/callback *)

\* getSecret(name): null when SECRETS_KV holds no `secret:${name}`
getSecret(name) ==
    IF Has(SECRETS_KV, SecretKey(name)) THEN Get(SECRETS_KV, SecretKey(name)) ELSE Null

\* !v
Falsy(v) == v = Null \/ v = ""

ProvidersAsked == {Null, "stripe", "youtube"}

\* provider.toUpperCase()
toUpperCase(provider) ==
    CASE provider = "stripe" -> "STRIPE"
      [] provider = "youtube" -> "YOUTUBE"

\* provider.toLowerCase()
toLowerCase(provider) ==
    CASE provider = "stripe" -> "stripe"
      [] provider = "youtube" -> "youtube"

\* `OAUTH_${provider.toUpperCase()}_${what}`
ProviderSecret(provider, what) == "OAUTH_" \o toUpperCase(provider) \o "_" \o what

\* `oauth_state:${state}`
StateKey(state) == "oauth_state:" \o state

\* randomUUID drawing the same value every time.
randomUUIDRepeating == "uuid-0"

\* crypto.randomUUID()
randomUUID == "uuid-" \o Fresh(SESSIONS_KV)

\* { provider, created_at }
StateRecord(provider) == [provider |-> provider, created_at |-> now]

\* handleOAuthInit up to the read of the client id.
OAuthInitBegin(r, provider) ==
    /\ Dispatch(r)
    /\ IF provider = Null THEN
            Respond(r, "oauth-init", 0, json([error |-> "missing provider param"], 400))
       ELSE
            Goto(r, [op |-> "oauth-init", pc |-> "auth-url", puts |-> 0, audits |-> 0,
                     provider |-> provider,
                     clientId |-> getSecret(ProviderSecret(provider, "CLIENT_ID"))])
    /\ UNCHANGED <<SETUP_TOKEN, now, SECRETS_KV, SESSIONS_KV, AUDIT_KV>>

\* const authUrl = await getSecret(`OAUTH_${...}_AUTH_URL`)
OAuthInitAuthUrl(r) ==
    /\ At(r, "oauth-init", "auth-url")
    /\ Goto(r, [req[r] EXCEPT !.pc = "redirect"]
                 @@ [authUrl |-> getSecret(ProviderSecret(req[r].provider, "AUTH_URL"))])
    /\ UNCHANGED <<SETUP_TOKEN, now, budget, SECRETS_KV, SESSIONS_KV, AUDIT_KV>>

\* const redirect = await getSecret("OAUTH_REDIRECT_URI"), and the check of the three.
OAuthInitRedirect(r) ==
    /\ At(r, "oauth-init", "redirect")
    /\ LET redirect == getSecret("OAUTH_REDIRECT_URI") IN
        IF Falsy(req[r].clientId) \/ Falsy(req[r].authUrl) \/ Falsy(redirect)
        THEN Respond(r, "oauth-init", 0,
                     json([error |-> "OAuth info missing for provider."], 400))
        ELSE Goto(r, [req[r] EXCEPT !.pc = "state"] @@ [redirect |-> redirect])
    /\ UNCHANGED <<SETUP_TOKEN, now, budget, SECRETS_KV, SESSIONS_KV, AUDIT_KV>>

\* The state token is drawn and its record put.
OAuthInitState(r) ==
    /\ At(r, "oauth-init", "state")
    /\ LET state == randomUUID IN
        /\ SESSIONS_KV' = kvPut(SESSIONS_KV, StateKey(state), StateRecord(req[r].provider))
        /\ Goto(r, [req[r] EXCEPT !.pc = "scope", !.puts = @ + 1] @@ [state |-> state])
    /\ UNCHANGED <<SETUP_TOKEN, now, budget, SECRETS_KV, AUDIT_KV>>

\* const scope = await getSecret(...) || "", and the redirect.
OAuthInitScope(r) ==
    /\ At(r, "oauth-init", "scope")
    /\ LET scope == getSecret(ProviderSecret(req[r].provider, "SCOPE")) IN
        Respond(r, "oauth-init", req[r].puts,
                [status |-> 302,
                 body |-> [location |-> req[r].authUrl, response_type |-> "code",
                           client_id |-> req[r].clientId, redirect_uri |-> req[r].redirect,
                           scope |-> IF Falsy(scope) THEN "" ELSE scope,
                           state |-> req[r].state]])
    /\ UNCHANGED <<SETUP_TOKEN, now, budget, SECRETS_KV, SESSIONS_KV, AUDIT_KV>>

CodesAsked == {Null, "code-1", "code-2"}

\* The state parameters the callback is sent: none, one never issued, the
\* tokens initiate issued, the one it issues next, and every session id.
StatesAsked ==
    {Null, "forged"}
      \cup { "uuid-" \o ToString(n) : n \in 0..Cardinality(DOMAIN SESSIONS_KV) }
      \cup { s.session_id : s \in SessionRecords }

\* What the provider's token endpoint answers: r.ok and the parsed body.
TokenResponses ==
    { [ok |-> TRUE, body |-> "token-A"], [ok |-> TRUE, body |-> "token-B"],
      [ok |-> FALSE, body |-> "invalid_grant"] }

\* handleOAuthCallback up to the read of the state record.
OAuthCallbackBegin(r, code, state) ==
    /\ Dispatch(r)
    /\ IF code = Null \/ state = Null THEN
            Respond(r, "oauth-callback", 0, json([error |-> "missing code or state"], 400))
       ELSE IF ~Has(SESSIONS_KV, StateKey(state)) THEN
            Respond(r, "oauth-callback", 0, json([error |-> "invalid or expired state"], 400))
       ELSE
            Goto(r, [op |-> "oauth-callback", pc |-> "token-url", puts |-> 0, audits |-> 0,
                     code |-> code, state |-> state,
                     provider |-> Get(SESSIONS_KV, StateKey(state)).provider])
    /\ UNCHANGED <<SETUP_TOKEN, now, SECRETS_KV, SESSIONS_KV, AUDIT_KV>>

\* const tokenUrl = await getSecret(`OAUTH_${...}_TOKEN_URL`)
OAuthCallbackTokenUrl(r) ==
    /\ At(r, "oauth-callback", "token-url")
    /\ Goto(r, [req[r] EXCEPT !.pc = "client-id"]
                 @@ [tokenUrl |-> getSecret(ProviderSecret(req[r].provider, "TOKEN_URL"))])
    /\ UNCHANGED <<SETUP_TOKEN, now, budget, SECRETS_KV, SESSIONS_KV, AUDIT_KV>>

\* const clientId = await getSecret(`OAUTH_${...}_CLIENT_ID`)
OAuthCallbackClientId(r) ==
    /\ At(r, "oauth-callback", "client-id")
    /\ Goto(r, [req[r] EXCEPT !.pc = "client-secret"]
                 @@ [clientId |-> getSecret(ProviderSecret(req[r].provider, "CLIENT_ID"))])
    /\ UNCHANGED <<SETUP_TOKEN, now, budget, SECRETS_KV, SESSIONS_KV, AUDIT_KV>>

\* const clientSecret = await getSecret(`OAUTH_${...}_CLIENT_SECRET`)
OAuthCallbackClientSecret(r) ==
    /\ At(r, "oauth-callback", "client-secret")
    /\ Goto(r, [req[r] EXCEPT !.pc = "redirect"]
                 @@ [clientSecret |-> getSecret(ProviderSecret(req[r].provider, "CLIENT_SECRET"))])
    /\ UNCHANGED <<SETUP_TOKEN, now, budget, SECRETS_KV, SESSIONS_KV, AUDIT_KV>>

\* const redirect = await getSecret("OAUTH_REDIRECT_URI"), and the check of the configuration.
OAuthCallbackRedirect(r) ==
    /\ At(r, "oauth-callback", "redirect")
    /\ IF Falsy(req[r].tokenUrl) \/ Falsy(req[r].clientId)
       THEN Respond(r, "oauth-callback", 0,
                    json([error |-> "token configuration missing for provider"], 500))
       ELSE Goto(r, [req[r] EXCEPT !.pc = "fetch"]
                      @@ [redirect |-> getSecret("OAUTH_REDIRECT_URI")])
    /\ UNCHANGED <<SETUP_TOKEN, now, budget, SECRETS_KV, SESSIONS_KV, AUDIT_KV>>

\* OAuthCallbackFetch without the check of r.ok.
OAuthCallbackFetchUnchecked(r, answer) ==
    /\ At(r, "oauth-callback", "fetch")
    /\ Goto(r, [op |-> "oauth-callback", pc |-> "store", puts |-> 0, audits |-> 0,
                state |-> req[r].state, provider |-> req[r].provider,
                tokenResp |-> answer.body])
    /\ UNCHANGED <<SETUP_TOKEN, now, budget, SECRETS_KV, SESSIONS_KV, AUDIT_KV>>

\* const r = await fetch(tokenUrl, ...); const tokenResp = await r.json()
OAuthCallbackFetch(r, answer) ==
    /\ At(r, "oauth-callback", "fetch")
    /\ IF ~answer.ok
       THEN Respond(r, "oauth-callback", 0,
                    json([error |-> "token exchange failed", detail |-> answer.body], 500))
       ELSE Goto(r, [op |-> "oauth-callback", pc |-> "store", puts |-> 0, audits |-> 0,
                     state |-> req[r].state, provider |-> req[r].provider,
                     tokenResp |-> answer.body])
    /\ UNCHANGED <<SETUP_TOKEN, now, budget, SECRETS_KV, SESSIONS_KV, AUDIT_KV>>

\* TokenKey without the provider: one token record for all providers.
TokenKeyShared(provider) == "secret:oauth:token"

\* `secret:oauth:${provider.toLowerCase()}:token`
TokenKey(provider) == "secret:oauth:" \o toLowerCase(provider) \o ":token"

\* await SECRETS_KV.put(`secret:oauth:${...}:token`, JSON.stringify(tokenResp))
OAuthCallbackStore(r) ==
    /\ At(r, "oauth-callback", "store")
    /\ SECRETS_KV' = Put(SECRETS_KV, TokenKey(req[r].provider), req[r].tokenResp)
    /\ Goto(r, [op |-> "oauth-callback", pc |-> "audit", puts |-> 1, audits |-> 0,
                state |-> req[r].state, provider |-> req[r].provider])
    /\ UNCHANGED <<SETUP_TOKEN, now, budget, SESSIONS_KV, AUDIT_KV>>

\* The oauth_connected audit entry and the confirmation page.
OAuthCallbackAudit(r) ==
    /\ At(r, "oauth-callback", "audit")
    /\ AUDIT_KV' = WriteAudit("oauth_connected", [provider |-> req[r].provider])
    /\ RespondAudited(r, "oauth-callback", req[r].puts + 1,
               [status |-> 200, body |-> [connected |-> req[r].provider]])
    /\ UNCHANGED <<SETUP_TOKEN, now, budget, SECRETS_KV, SESSIONS_KV>>

-----------------------------------------------------------------------------
(* POST /api/inbound-email and POST /api/audit *)

InboundBodies == {InvalidJson, [json |-> TRUE, from |-> "a@b"]}

\* MessageId without its random part.
MessageIdWithoutRand == "msg:" \o ToString(now)

\* `msg:${Date.now()}:${Math.random().toString(36).slice(2,8)}`
MessageId == "msg:" \o ToString(now) \o ":" \o Fresh(SESSIONS_KV)

\* handleInboundEmail up to the put of the message record.
InboundEmailBegin(r, body) ==
    /\ Dispatch(r)
    /\ IF ~body.json THEN
            /\ Respond(r, "inbound-email", 0, json([error |-> "invalid json"], 400))
            /\ UNCHANGED SESSIONS_KV
       ELSE
            LET id == MessageId IN
            /\ SESSIONS_KV' = kvPut(SESSIONS_KV, id,
                                    [id |-> id, received_at |-> now, payload |-> body])
            /\ Goto(r, [op |-> "inbound-email", pc |-> "audit", puts |-> 1, audits |-> 0, id |-> id])
    /\ UNCHANGED <<SETUP_TOKEN, now, SECRETS_KV, AUDIT_KV>>

\* The inbound_email audit entry and the response.
InboundEmailAudit(r) ==
    /\ At(r, "inbound-email", "audit")
    /\ AUDIT_KV' = WriteAudit("inbound_email", [id |-> req[r].id])
    /\ RespondAudited(r, "inbound-email", req[r].puts + 1,
               json([ok |-> TRUE, id |-> req[r].id], 200))
    /\ UNCHANGED <<SETUP_TOKEN, now, budget, SECRETS_KV, SESSIONS_KV>>

AuditBodies ==
    { InvalidJson,
      [json |-> TRUE, action |-> "x", admin |-> "someone-else"],
      [json |-> TRUE, action |-> "y"] }

\* AuditPostEntry with the sources of Object.assign swapped: the body wins.
AuditPostEntryBodyWins(body) ==
    [f \in ((DOMAIN body) \ {"json"}) \cup {"admin", "received_at"} |->
        CASE f \in DOMAIN body -> body[f]
          [] f = "admin" -> ADMIN_HANDLE
          [] f = "received_at" -> now]

\* Object.assign({}, body, { admin: ADMIN_HANDLE, received_at: ... })
AuditPostEntry(body) ==
    [f \in ((DOMAIN body) \ {"json"}) \cup {"admin", "received_at"} |->
        CASE f = "admin" -> ADMIN_HANDLE
          [] f = "received_at" -> now
          [] OTHER -> body[f]]

\* handleAuditPost
AuditPost(r, body) ==
    /\ Dispatch(r)
    /\ IF ~body.json THEN
            /\ Respond(r, "audit", 0, Exception("json"))
            /\ UNCHANGED AUDIT_KV
       ELSE
            /\ AUDIT_KV' = kvPut(AUDIT_KV, AuditKey, AuditPostEntry(body))
            /\ RespondAudited(r, "audit", 1, json([ok |-> TRUE, entry |-> AuditPostEntry(body)], 200))
    /\ UNCHANGED <<SETUP_TOKEN, now, SECRETS_KV, SESSIONS_KV>>

-----------------------------------------------------------------------------
(* GET /api/audit/logs *)

\* AUDIT_KV.list({ prefix: "audit:", limit: 200 }): the limit, scaled down.
ListLimit == 2

\* The orders in which list() may yield the keys `audit:${Date.now()}:${rand}`:
\* by the milliseconds of the put, and by the random suffix among keys of the
\* same millisecond.
KeyOrders(kv) ==
    { order \in [1..Cardinality(Live(kv)) -> Live(kv)] :
        /\ \A i, j \in DOMAIN order : i # j => order[i] # order[j]
        /\ \A i, j \in DOMAIN order : i < j => order[i][1] <= order[j][1] }

\* out.reverse()
reverse(out) == [i \in 1..Len(out) |-> out[Len(out) + 1 - i]]

\* handleListAudits up to the listing.
ListAuditsBegin(r) ==
    /\ Dispatch(r)
    /\ Goto(r, [op |-> "list-audits", pc |-> "list", puts |-> 0, audits |-> 0])
    /\ UNCHANGED <<SETUP_TOKEN, now, SECRETS_KV, SESSIONS_KV, AUDIT_KV>>

\* for await (const item of AUDIT_KV.list(...)) out.push(JSON.parse(await AUDIT_KV.get(item.name)))
\* and the response { ok, count, logs: out.reverse() }
ListAuditsList(r) ==
    /\ At(r, "list-audits", "list")
    /\ \E order \in KeyOrders(AUDIT_KV) :
          LET n == IF Len(order) < ListLimit THEN Len(order) ELSE ListLimit
              out == [i \in 1..n |-> Get(AUDIT_KV, order[i])]
          IN Respond(r, "list-audits", 0,
                     json([ok |-> TRUE, count |-> Len(out), logs |-> reverse(out)], 200))
    /\ UNCHANGED <<SETUP_TOKEN, now, budget, SECRETS_KV, SESSIONS_KV, AUDIT_KV>>

-----------------------------------------------------------------------------
(* The environment. *)

\* Milliseconds pass.
MaxTime == 2

Tick ==
    /\ now < MaxTime
    /\ now' = now + 1
    /\ UNCHANGED <<SETUP_TOKEN, budget, SECRETS_KV, SESSIONS_KV, AUDIT_KV, req, last>>

\* The awaited operation of a request in flight rejects: its effect is not
\* applied and handleRequest's catch answers 500.
Throw(r) ==
    /\ InFlight(r)
    /\ Respond(r, req[r].op, req[r].puts, Exception(req[r].pc))
    /\ UNCHANGED <<SETUP_TOKEN, now, budget, SECRETS_KV, SESSIONS_KV, AUDIT_KV>>

-----------------------------------------------------------------------------

\* The namespaces as a fresh deployment finds them, or with the flag the first
\* generation's setup left in SECRETS_KV.
Init ==
    /\ SETUP_TOKEN \in {Undefined, "tok"}
    /\ now = 0
    /\ budget = MaxRequests
    /\ SECRETS_KV \in {EmptyKV, Put(EmptyKV, FlagKey, "true")}
    /\ SESSIONS_KV = EmptyKV
    /\ AUDIT_KV = EmptyKV
    /\ req = [r \in Slots |-> Idle]
    /\ last = [op |-> "none", puts |-> 0, audits |-> 0, resp |-> json([ok |-> TRUE], 0)]

\* The steps of the setup controller in slot r.
SetupStep(r) ==
    \/ \E provided \in Credentials, body \in StoreSecretsBodies :
            StoreSecretsBegin(r, provided, body)
    \/ StoreSecretsPut(r)
    \/ StoreSecretsAudit(r)

\* The steps of the OAuth broker in slot r.
OAuthStep(r) ==
    \/ \E provider \in ProvidersAsked : OAuthInitBegin(r, provider)
    \/ OAuthInitAuthUrl(r)
    \/ OAuthInitRedirect(r)
    \/ OAuthInitState(r)
    \/ OAuthInitScope(r)
    \/ \E code \in CodesAsked, state \in StatesAsked : OAuthCallbackBegin(r, code, state)
    \/ OAuthCallbackTokenUrl(r)
    \/ OAuthCallbackClientId(r)
    \/ OAuthCallbackClientSecret(r)
    \/ OAuthCallbackRedirect(r)
    \/ \E answer \in TokenResponses : OAuthCallbackFetch(r, answer)
    \/ OAuthCallbackStore(r)
    \/ OAuthCallbackAudit(r)

\* The steps of the checkout/delivery controller in slot r.
CheckoutStep(r) ==
    \/ \E body \in CheckoutBodies : CreateCheckoutBegin(r, body)
    \/ CreateCheckoutAudit(r)
    \/ CreateCheckoutDeliver(r)
    \/ CreateCheckoutDeliverAudit(r)
    \/ \E session_id \in SessionIdsAsked : DeliverBegin(r, session_id)
    \/ DeliverPut(r)
    \/ DeliverAudit(r)

\* The steps of the inbound receiver and of the audit endpoints in slot r.
OtherStep(r) ==
    \/ \E body \in InboundBodies : InboundEmailBegin(r, body)
    \/ InboundEmailAudit(r)
    \/ \E body \in AuditBodies : AuditPost(r, body)
    \/ ListAuditsBegin(r)
    \/ ListAuditsList(r)

\* Requests one after the other: every handler, one request in flight.
Next ==
    \/ SetupStep(1)
    \/ OAuthStep(1)
    \/ CheckoutStep(1)
    \/ OtherStep(1)
    \/ Throw(1)

Spec == Init /\ [][Next]_vars

-----------------------------------------------------------------------------
(* The OAuth broker on a worker that a setup call has configured. *)

\* SECRETS_KV after the first n puts of a store-secrets call with payload m.
StoredPrefix(m, n) ==
    [k \in { SecretKey(m[i][1]) : i \in 1..n } |->
        [value |-> m[CHOOSE i \in 1..n : SecretKey(m[i][1]) = k][2],
         expiration |-> NoExpiration]]

\* What a setup call with StripeConfig leaves: the whole configuration with
\* its audit entry, or, its last put having rejected, all but the token URL.
InitOAuth ==
    /\ SETUP_TOKEN = "tok"
    /\ now = 0
    /\ budget = MaxRequests
    /\ SESSIONS_KV = EmptyKV
    /\ req = [r \in Slots |-> Idle]
    /\ \/ /\ SECRETS_KV = StoredPrefix(StripeConfig, Len(StripeConfig))
          /\ AUDIT_KV = kvPut(EmptyKV, <<now, Fresh(EmptyKV)>>,
                              [time |-> now, admin |-> ADMIN_HANDLE, event |-> "store_secrets",
                               details |-> [stored |-> Keys(StripeConfig)]])
          /\ last = [op |-> "store-secrets", puts |-> Len(StripeConfig) + 1, audits |-> 1,
                     resp |-> json([ok |-> TRUE, stored |-> Keys(StripeConfig)], 200)]
       \/ /\ SECRETS_KV = StoredPrefix(StripeConfig, Len(StripeConfig) - 1)
          /\ AUDIT_KV = EmptyKV
          /\ last = [op |-> "store-secrets", puts |-> Len(StripeConfig) - 1, audits |-> 0,
                     resp |-> Exception("put")]

\* Initiate and complete requests, up to two in flight at a time.
NextOAuth ==
    \/ OAuthStep(1)
    \/ Throw(1)
    \/ OAuthStep(2)
    \/ Throw(2)

SpecOAuth == InitOAuth /\ [][NextOAuth]_vars

-----------------------------------------------------------------------------
(* Setup calls that overlap. *)

\* Store-secrets calls, up to two in flight at a time.
NextSetup ==
    \/ SetupStep(1)
    \/ Throw(1)
    \/ SetupStep(2)
    \/ Throw(2)

SpecSetup == Init /\ [][NextSetup]_vars

-----------------------------------------------------------------------------
(* Checkout and deliver calls that overlap. *)

\* Create-checkout and deliver calls, up to two in flight at a time.
NextCheckout ==
    \/ CheckoutStep(1)
    \/ Throw(1)
    \/ CheckoutStep(2)
    \/ Throw(2)

SpecCheckout == Init /\ [][NextCheckout]_vars

-----------------------------------------------------------------------------
(* Requests that name the records of the Sessions namespace, whatever their kind. *)

\* The ids under which the Sessions namespace holds a record: the session ids,
\* the state tokens and the message ids.
IdsInUse ==
    { s.session_id : s \in SessionRecords }
      \cup { state \in { "uuid-" \o ToString(n) : n \in 0..Cardinality(DOMAIN SESSIONS_KV) } :
                StateKey(state) \in DOMAIN SESSIONS_KV }
      \cup { SESSIONS_KV[k].value.id :
                k \in { k \in DOMAIN SESSIONS_KV : "payload" \in DOMAIN SESSIONS_KV[k].value } }

\* Initiate, create-checkout and inbound-email fill the namespace; deliver and
\* the callback are asked with the ids in use.
NextAlias ==
    \/ \E provider \in ProvidersAsked : OAuthInitBegin(1, provider)
    \/ OAuthInitAuthUrl(1)
    \/ OAuthInitRedirect(1)
    \/ OAuthInitState(1)
    \/ OAuthInitScope(1)
    \/ \E body \in CheckoutBodies : CreateCheckoutBegin(1, body)
    \/ CreateCheckoutAudit(1)
    \/ CreateCheckoutDeliver(1)
    \/ CreateCheckoutDeliverAudit(1)
    \/ \E body \in InboundBodies : InboundEmailBegin(1, body)
    \/ InboundEmailAudit(1)
    \/ \E session_id \in IdsInUse : DeliverBegin(1, session_id)
    \/ DeliverPut(1)
    \/ DeliverAudit(1)
    \/ \E code \in CodesAsked, state \in IdsInUse : OAuthCallbackBegin(1, code, state)
    \/ OAuthCallbackTokenUrl(1)
    \/ OAuthCallbackClientId(1)
    \/ OAuthCallbackClientSecret(1)
    \/ OAuthCallbackRedirect(1)
    \/ \E answer \in TokenResponses : OAuthCallbackFetch(1, answer)
    \/ OAuthCallbackStore(1)
    \/ OAuthCallbackAudit(1)
    \/ Throw(1)

SpecAlias == InitOAuth /\ [][NextAlias]_vars

-----------------------------------------------------------------------------
(* The audit trail of a configured worker while the clock runs. *)

\* Bodies of POST /api/audit that bring their own time, and one that does not.
TimedAuditBodies ==
    { [json |-> TRUE, action |-> "x", time |-> t] : t \in 0..MaxTime }
      \cup { [json |-> TRUE, action |-> "y"] }

\* Inbound messages, appended entries and listings, one request at a time.
NextAudit ==
    \/ Tick
    \/ \E body \in InboundBodies : InboundEmailBegin(1, body)
    \/ InboundEmailAudit(1)
    \/ \E body \in TimedAuditBodies : AuditPost(1, body)
    \/ ListAuditsBegin(1)
    \/ ListAuditsList(1)
    \/ Throw(1)

SpecAudit == InitOAuth /\ [][NextAudit]_vars

-----------------------------------------------------------------------------
(* Vocabulary of the properties. *)

\* The audit entries with an event name.
Events(kv) == { k \in DOMAIN kv : "event" \in DOMAIN kv[k].value }

\* A store-secrets call has succeeded: its response and its audit entry are one step.
SetupSucceeded == \E k \in Events(AUDIT_KV) : AUDIT_KV[k].value.event = "store_secrets"

\* This step sends the response of a request of handler op.
Answers(op) ==
    /\ last'.op = op
    /\ \/ \E r \in Slots : req[r].op = op /\ req'[r] = Idle
       \/ budget' < budget /\ req' = req

\* The initialization flag is set.
FlagSet == FlagKey \in DOMAIN SECRETS_KV /\ SECRETS_KV[FlagKey].value = "true"

\* The session record of session_id holds an artifact, for a session created
\* with the given presold.
HasArtifact(session_id, presold) ==
    /\ Has(SESSIONS_KV, SessionKey(session_id))
    /\ Get(SESSIONS_KV, SessionKey(session_id)).presold = presold
    /\ "delivery" \in DOMAIN Get(SESSIONS_KV, SessionKey(session_id))

\* The audit entries of event about session_id.
SessionEvents(kv, event, session_id) ==
    { k \in Events(kv) : /\ kv[k].value.event = event
                         /\ kv[k].value.details.session_id = session_id }

\* The record is the state record of an OAuth flow.
IsStateRecord(record) == "provider" \in DOMAIN record.value

-----------------------------------------------------------------------------
(* The setup controller: C1 - C5. *)

\* C1: one-time gate. Once one store-secrets call has succeeded, every later
\* store-secrets call fails, whatever credential and payload it carries. Stated
\* in its weakest form: no store-secrets call answered after a successful one
\* is answered with success.
C1_OneTimeGate ==
    [][ (SetupSucceeded /\ Answers("store-secrets")) => last'.resp.status # 200 ]_vars

\* C2: a rejected store-secrets call leaves the Secrets namespace, the flag and
\* the Audit namespace as they were, and no secret of a second setup call (one
\* that follows a successful one) is ever written.
C2_RejectedCallWritesNothing ==
    [][ /\ \A provided \in Credentials, body \in StoreSecretsBodies :
              (StoreSecretsBegin(1, provided, body) /\ req'[1] = Idle)
                  => UNCHANGED <<SECRETS_KV, AUDIT_KV>>
        /\ (SetupSucceeded /\ At(1, "store-secrets", "put")) => UNCHANGED SECRETS_KV
      ]_vars

\* C3: a successful first store-secrets call writes one secret record per key
\* of S and no other record, sets the initialization flag, and returns exactly
\* the key names of S.
C3_FirstCallStoresAndSetsFlag ==
    [][ /\ (At(1, "store-secrets", "put") /\ SECRETS_KV' # SECRETS_KV)
              => \E i \in 1..Len(req[1].secrets) :
                    SECRETS_KV' = Put(SECRETS_KV, SecretKey(req[1].secrets[i][1]),
                                      req[1].secrets[i][2])
        /\ (~SetupSucceeded /\ Answers("store-secrets") /\ last'.resp.status = 200)
              => /\ last'.resp.body.stored = Keys(req[1].secrets)
                 /\ \A i \in 1..Len(req[1].secrets) :
                       /\ Has(SECRETS_KV', SecretKey(req[1].secrets[i][1]))
                       /\ Get(SECRETS_KV', SecretKey(req[1].secrets[i][1]))
                             = req[1].secrets[i][2]
                 /\ Has(SECRETS_KV', FlagKey)
                 /\ Get(SECRETS_KV', FlagKey) = "true"
      ]_vars

\* C4: the initialization flag is monotone. Once the flag record holds true, no
\* step of any handler overwrites it with another value, resets it or removes it.
C4_FlagMonotone ==
    [][ FlagSet => /\ FlagKey \in DOMAIN SECRETS_KV'
                   /\ SECRETS_KV'[FlagKey] = SECRETS_KV[FlagKey] ]_vars

\* A set flag has survived a successful store-secrets call whose payload names
\* a secret like the flag.
C4_Witness ==
    /\ FlagSet
    /\ Has(SECRETS_KV, SecretKey(FlagKey))
    /\ last.op = "store-secrets"
    /\ last.resp.status = 200

\* C5: writes before flag. While a store-secrets call is writing its batch no
\* step sets the flag, so a call that fails mid-batch leaves the flag as it
\* was; a store-secrets call with the valid credential that follows such a
\* failure is admitted to write, and a call whose writes all succeed is
\* answered with success and the key names.
C5_WritesBeforeFlag ==
    [][ /\ At(1, "store-secrets", "put")
              => (FlagKey \in DOMAIN SECRETS_KV'
                    => /\ FlagKey \in DOMAIN SECRETS_KV
                       /\ SECRETS_KV'[FlagKey] = SECRETS_KV[FlagKey])
        /\ \A m \in SecretMaps :
              ( /\ last.op = "store-secrets"
                /\ last.resp = Exception("put")
                /\ StoreSecretsBegin(1, SETUP_TOKEN, [json |-> TRUE, secrets |-> m]) )
                  => At(1, "store-secrets", "put")'
        /\ StoreSecretsAudit(1)
              => last'.resp = json([ok |-> TRUE, stored |-> Keys(req[1].secrets)], 200)
      ]_vars

\* The call before failed at its second write, and the retry has written its
\* whole batch.
C5_Witness ==
    /\ last.op = "store-secrets"
    /\ last.resp = Exception("put")
    /\ last.puts = 1
    /\ At(1, "store-secrets", "audit")
    /\ req[1].stored = Keys(req[1].secrets)
    /\ Len(req[1].stored) > 1

-----------------------------------------------------------------------------
(* The checkout and delivery controller: C6 - C8. *)

\* C6: for a session created with presold = true, a later resolveDelivery is
\* answered at once from the session record with the artifact createCheckout
\* put there and returned inline, and no step rewrites the session record of a
\* presold session that holds its artifact.
C6_PresoldDeliverIdempotent ==
    [][ \A session_id \in SessionIdsAsked \ {Null} :
          HasArtifact(session_id, TRUE) =>
            /\ SESSIONS_KV'[SessionKey(session_id)] = SESSIONS_KV[SessionKey(session_id)]
            /\ DeliverBegin(1, session_id) =>
                 /\ req'[1] = Idle
                 /\ last'.resp = json([ok |-> TRUE, session_id |-> session_id,
                                       deliver |-> Get(SESSIONS_KV, SessionKey(session_id)).delivery],
                                      200)
                 /\ UNCHANGED <<SESSIONS_KV, AUDIT_KV>>
                 /\ ( /\ last.op = "create-checkout"
                      /\ last.resp.status = 200
                      /\ last.resp.body.session_id = session_id )
                        => last'.resp.body.deliver = last.resp.body.deliver
      ]_vars

\* A presold checkout has run to its end, and the resolveDelivery answered last
\* was for its session and put nothing.
C6_Witness ==
    /\ last.op = "deliver"
    /\ last.resp.status = 200
    /\ last.puts = 0
    /\ HasArtifact(last.resp.body.session_id, TRUE)
    /\ SessionEvents(AUDIT_KV, "auto_deliver_presold", last.resp.body.session_id) # {}
    /\ SessionEvents(AUDIT_KV, "deliver_resolved", last.resp.body.session_id) = {}

\* C7: for a session created with presold = false, the first resolveDelivery
\* is admitted to derive the artifact; when it is answered the session record
\* holds the artifact it returns, is marked delivered and stamped, and there
\* is one deliver_resolved entry for the session; a resolveDelivery for the
\* session that finds the artifact is answered at once with it, the same as
\* the answer before, and puts nothing.
C7_LazyDeliverOnce ==
    [][ \A session_id \in SessionIdsAsked \ {Null} :
          /\ ( /\ Has(SESSIONS_KV, SessionKey(session_id))
               /\ ~Get(SESSIONS_KV, SessionKey(session_id)).presold
               /\ ~HasArtifact(session_id, FALSE)
               /\ DeliverBegin(1, session_id) )
                 => At(1, "deliver", "put")'
          /\ ( /\ At(1, "deliver", "audit")
               /\ req[1].session_id = session_id
               /\ ~req[1].session.presold
               /\ Answers("deliver")
               /\ last'.resp.status = 200 )
                 => /\ HasArtifact(session_id, FALSE)'
                    /\ SESSIONS_KV'[SessionKey(session_id)].value
                          = Delivered(req[1].session, last'.resp.body.deliver)
                    /\ SESSIONS_KV'[SessionKey(session_id)].value.status = "delivered"
                    /\ Cardinality(SessionEvents(AUDIT_KV', "deliver_resolved", session_id)) = 1
          /\ ( HasArtifact(session_id, FALSE) /\ DeliverBegin(1, session_id) )
                 => /\ req'[1] = Idle
                    /\ last'.resp = json([ok |-> TRUE, session_id |-> session_id,
                                          deliver |-> Get(SESSIONS_KV, SessionKey(session_id)).delivery],
                                         200)
                    /\ UNCHANGED <<SESSIONS_KV, AUDIT_KV>>
                    /\ ( /\ last.op = "deliver"
                         /\ last.resp.status = 200
                         /\ last.resp.body.session_id = session_id )
                           => last'.resp.body.deliver = last.resp.body.deliver
      ]_vars

\* The first resolveDelivery of a session that is not presold has derived and
\* recorded the artifact, and the one answered last put nothing.
C7_Witness ==
    /\ last.op = "deliver"
    /\ last.resp.status = 200
    /\ last.puts = 0
    /\ HasArtifact(last.resp.body.session_id, FALSE)
    /\ Cardinality(SessionEvents(AUDIT_KV, "deliver_resolved", last.resp.body.session_id)) = 1

\* C8: once a persisted session record has a delivery artifact, no step of
\* any request changes the artifact or removes it.
C8_ArtifactNeverChanges ==
    [][ \A k \in DOMAIN SESSIONS_KV :
          "delivery" \in DOMAIN SESSIONS_KV[k].value
            => /\ k \in Live(SESSIONS_KV')
               /\ "delivery" \in DOMAIN SESSIONS_KV'[k].value
               /\ SESSIONS_KV'[k].value.delivery = SESSIONS_KV[k].value.delivery
      ]_vars

\* The first session holds its artifact, SESSIONS_KV has been written after
\* it, and a resolveDelivery for it has been answered since.
C8_Witness ==
    /\ HasArtifact("sess_0_0", TRUE) \/ HasArtifact("sess_0_0", FALSE)
    /\ Cardinality(DOMAIN SESSIONS_KV) > 1
    /\ last.op = "deliver"
    /\ last.resp.status = 200
    /\ last.resp.body.session_id = "sess_0_0"

-----------------------------------------------------------------------------
(* The OAuth broker: C9, C10. *)

\* C9: for every state token initiate never issued, or that has expired,
\* complete(code, state) fails as Forbidden (403) for every code and writes no
\* token to Secrets and no audit entry.
C9_UnknownStateForbidden ==
    [][ \A code \in CodesAsked \ {Null}, state \in StatesAsked \ {Null} :
          ( ~Has(SESSIONS_KV, StateKey(state)) /\ OAuthCallbackBegin(1, code, state) )
            => /\ req'[1] = Idle
               /\ last'.resp.status = 403
               /\ UNCHANGED <<SECRETS_KV, AUDIT_KV>>
      ]_vars

\* C10: every state record written by initiate carries a time-to-live.
C10_StateRecordsExpire ==
    \A k \in DOMAIN SESSIONS_KV :
        IsStateRecord(SESSIONS_KV[k]) => SESSIONS_KV[k].expiration # NoExpiration

-----------------------------------------------------------------------------
(* The OAuth broker: C11 - C14. *)

\* `OAUTH_${P}_CLIENT_ID`, `OAUTH_${P}_AUTH_URL` and OAUTH_REDIRECT_URI are stored.
InitConfigComplete(provider) ==
    /\ ~Falsy(getSecret(ProviderSecret(provider, "CLIENT_ID")))
    /\ ~Falsy(getSecret(ProviderSecret(provider, "AUTH_URL")))
    /\ ~Falsy(getSecret("OAUTH_REDIRECT_URI"))

\* The keys of the state records SESSIONS_KV holds.
StateRecords(kv) == { k \in DOMAIN kv : IsStateRecord(kv[k]) }

\* C11: for a provider with complete configuration, initiate draws a state
\* token under which SESSIONS_KV holds no record yet, puts a state record for
\* exactly that token holding that provider and nothing else, and redirects to
\* a target that carries that token.
C11_FreshStateToken ==
    [][ /\ ( /\ At(1, "oauth-init", "redirect")
             /\ InitConfigComplete(req[1].provider)
             /\ OAuthInitRedirect(1) )
               => At(1, "oauth-init", "state")'
        /\ ( At(1, "oauth-init", "state") /\ OAuthInitState(1) )
               => /\ StateKey(req'[1].state) \notin DOMAIN SESSIONS_KV
                  /\ SESSIONS_KV' = Put(SESSIONS_KV, StateKey(req'[1].state),
                                        SESSIONS_KV'[StateKey(req'[1].state)].value)
                  /\ SESSIONS_KV'[StateKey(req'[1].state)].value.provider = req[1].provider
        /\ ( Answers("oauth-init") /\ last'.resp.status = 302 )
               => /\ last'.resp.body.state = req[1].state
                  /\ Has(SESSIONS_KV', StateKey(req[1].state))
                  /\ Get(SESSIONS_KV', StateKey(req[1].state)).provider = req[1].provider
      ]_vars

\* Two tokens have been issued, and the redirect sent last carries the second.
C11_Witness ==
    /\ Cardinality(StateRecords(SESSIONS_KV)) = 2
    /\ last.op = "oauth-init"
    /\ last.resp.status = 302
    /\ last.resp.body.state = "uuid-1"
    /\ Has(SESSIONS_KV, StateKey("uuid-0"))
    /\ Has(SESSIONS_KV, StateKey("uuid-1"))

\* The oauth_connected entries of the audit log.
Connected(kv) == { k \in Events(kv) : kv[k].value.event = "oauth_connected" }

\* C12: a state token is consumed by exactly one callback: at most one
\* complete succeeds for an issued state token. Stated by what follows from
\* it in every state: no more completes have succeeded than state tokens
\* have been issued.
C12_StateSingleUse ==
    Cardinality(Connected(AUDIT_KV)) <= Cardinality(StateRecords(SESSIONS_KV))

\* The provider recorded at initiate time under the state the request carries.
RecordedProvider(r) == Get(SESSIONS_KV, StateKey(req[r].state)).provider

\* C13: a successful complete writes the token under the provider recorded in
\* the state record, over any prior token of that provider, and leaves every
\* other record of Secrets unchanged; when it is answered the token record of
\* that provider is there.
C13_TokenKeyedByRecordedProvider ==
    [][ \A r \in Slots :
          /\ ( At(r, "oauth-callback", "store") /\ OAuthCallbackStore(r) )
                => SECRETS_KV' = Put(SECRETS_KV,
                                     "secret:oauth:" \o toLowerCase(RecordedProvider(r)) \o ":token",
                                     req[r].tokenResp)
          /\ ( /\ At(r, "oauth-callback", "audit")
               /\ req'[r] = Idle
               /\ last'.op = "oauth-callback"
               /\ last'.resp.status = 200 )
                => /\ Has(SECRETS_KV',
                          "secret:oauth:" \o toLowerCase(RecordedProvider(r)) \o ":token")
                   /\ last'.resp.body.connected = RecordedProvider(r)
      ]_vars

\* A complete has succeeded before, and a later one has put its token over
\* the token record of the provider.
C13_Witness ==
    /\ Connected(AUDIT_KV) # {}
    /\ \E r \in Slots :
          /\ At(r, "oauth-callback", "audit")
          /\ Get(SECRETS_KV, "secret:oauth:stripe:token") = "token-B"
    /\ \A k \in { SecretKey(StripeConfig[i][1]) : i \in 1..Len(StripeConfig) } :
          SECRETS_KV[k] = StoredPrefix(StripeConfig, Len(StripeConfig))[k]

\* The token URL or the client id of the provider is not stored.
TokenConfigIncomplete(provider) ==
    \/ Falsy(getSecret(ProviderSecret(provider, "TOKEN_URL")))
    \/ Falsy(getSecret(ProviderSecret(provider, "CLIENT_ID")))

\* C14: when the token endpoint answers with a non-success response complete
\* fails with 500 and the provider's error payload, and when the provider's
\* token-endpoint configuration is incomplete it fails with 500; in both
\* cases Secrets, with any token stored before, and Audit stay as they were.
C14_FailedExchangeWritesNothing ==
    [][ \A r \in Slots :
          /\ \A answer \in TokenResponses :
                ( ~answer.ok /\ OAuthCallbackFetch(r, answer) )
                   => /\ req'[r] = Idle
                      /\ last'.resp = json([error |-> "token exchange failed",
                                            detail |-> answer.body], 500)
                      /\ UNCHANGED <<SECRETS_KV, AUDIT_KV>>
          /\ ( /\ At(r, "oauth-callback", "redirect")
               /\ TokenConfigIncomplete(req[r].provider)
               /\ OAuthCallbackRedirect(r) )
                   => /\ req'[r] = Idle
                      /\ last'.resp.status = 500
                      /\ UNCHANGED <<SECRETS_KV, AUDIT_KV>>
      ]_vars

\* A token of the provider is stored, and the complete answered last failed
\* at the token endpoint.
C14_Witness ==
    /\ Has(SECRETS_KV, "secret:oauth:stripe:token")
    /\ Cardinality(Connected(AUDIT_KV)) = 1
    /\ last.op = "oauth-callback"
    /\ last.resp = json([error |-> "token exchange failed", detail |-> "invalid_grant"], 500)

-----------------------------------------------------------------------------
(* The audit trail: C15 - C20 *)

\* The names and the values the setup calls may carry.
SecretNames == UNION { { m[i][1] : i \in 1..Len(m) } : m \in SecretMaps }

SecretValues == UNION { { m[i][2] : i \in 1..Len(m) } : m \in SecretMaps }

\* What the token endpoint may answer and the codes it was asked with.
TokenMaterial == { t.body : t \in TokenResponses } \cup (CodesAsked \ {Null})

\* The audit entries of one event.
EntriesOf(event) ==
    { AUDIT_KV[k].value : k \in { k \in Events(AUDIT_KV) : AUDIT_KV[k].value.event = event } }

\* C15: the audit entry of a setup call carries the names of the secrets it
\* stored and nothing of their values, and the audit entry of a completed
\* OAuth exchange carries the provider and nothing of the code or the token:
\* apart from the time and the administrator the entries are a function of
\* the names and of the provider.
C15_AuditIndependentOfSecrets ==
    /\ \A e \in EntriesOf("store_secrets") :
          /\ DOMAIN e = {"time", "admin", "event", "details"}
          /\ DOMAIN e.details = {"stored"}
          /\ \A i \in DOMAIN e.details.stored :
                /\ e.details.stored[i] \in SecretNames
                /\ e.details.stored[i] \notin SecretValues
    /\ \A e \in EntriesOf("oauth_connected") :
          /\ DOMAIN e = {"time", "admin", "event", "details"}
          /\ DOMAIN e.details = {"provider"}
          /\ e.details.provider \in ProvidersAsked \ {Null}
          /\ e.details.provider \notin TokenMaterial \cup SecretValues

\* A setup call and an OAuth exchange have both been logged, and the token
\* of the exchange is stored.
C15_Witness ==
    /\ EntriesOf("store_secrets") # {}
    /\ \E e \in EntriesOf("oauth_connected") :
          /\ Has(SECRETS_KV, TokenKey(e.details.provider))
          /\ Get(SECRETS_KV, TokenKey(e.details.provider)) \in TokenMaterial

\* The entries POST /api/audit has appended: they carry the time of receipt.
Posted(kv) == { k \in DOMAIN kv : "received_at" \in DOMAIN kv[k].value }

\* C16: every entry of the Audit namespace carries the fixed administrative
\* identity, whether a handler wrote it or POST /api/audit appended it from
\* a body that names another administrator.
C16_FixedAdminIdentity ==
    \A k \in DOMAIN AUDIT_KV :
        /\ "admin" \in DOMAIN AUDIT_KV[k].value
        /\ AUDIT_KV[k].value.admin = ADMIN_HANDLE

\* The body {action: "x", admin: "someone-else"} has been appended, next to
\* an entry a handler wrote.
C16_Witness ==
    /\ \E k \in Posted(AUDIT_KV) : AUDIT_KV[k].value.action = "x"
    /\ Events(AUDIT_KV) # {}

\* The time an audit entry is of: the time it carries, or for an appended
\* entry that brought none the time of its receipt.
Timestamp(entry) == IF "time" \in DOMAIN entry THEN entry.time ELSE entry.received_at

\* The last response is a listing of the audit log.
Listing == last.op = "list-audits" /\ last.resp.status = 200

\* C17: a listing of the audit log is in non-increasing order of the entries'
\* timestamps, whatever the order in which the entries were put and whether
\* their timestamps came from the server or from the caller.
C17_ListNewestFirst ==
    Listing =>
        LET logs == last.resp.body.logs IN
        \A i, j \in DOMAIN logs : i < j => Timestamp(logs[i]) >= Timestamp(logs[j])

\* C18: a listing of an audit log that holds more entries than the limit of
\* the listing returns as many entries as the limit, and none of them is
\* older than an entry it leaves out.
C18_CapKeepsMostRecent ==
    [][(Answers("list-audits") /\ last'.resp.status = 200
            /\ Cardinality(DOMAIN AUDIT_KV) > ListLimit) =>
        LET logs == last'.resp.body.logs
            returned == { logs[i] : i \in DOMAIN logs }
            leftOut == { AUDIT_KV[k].value : k \in DOMAIN AUDIT_KV } \ returned
        IN /\ Len(logs) = ListLimit
           /\ \A e \in returned, o \in leftOut : Timestamp(e) >= Timestamp(o)]_vars

\* C19: the audit log is append-only: no step of any handler removes an
\* entry of the Audit namespace or changes its content, so the entries only
\* grow in number.
C19_AuditAppendOnly ==
    [][\A k \in DOMAIN AUDIT_KV :
          /\ k \in DOMAIN AUDIT_KV'
          /\ AUDIT_KV'[k] = AUDIT_KV[k]]_vars

\* A listing has answered with an entry, and the log holds an entry a handler
\* wrote next to one that POST /api/audit appended.
C19_Witness ==
    /\ Listing
    /\ last.resp.body.count > 0
    /\ Events(AUDIT_KV) # {}
    /\ Posted(AUDIT_KV) # {}

\* The handlers of the routes.
Handlers ==
    {"store-secrets", "oauth-init", "oauth-callback", "inbound-email", "create-checkout",
     "deliver", "audit", "list-audits"}

\* C20: every request that succeeds and has put a record into the Secrets or
\* the Sessions namespace has appended at least one audit entry, and the
\* entries the handlers write carry a time, the admin handle, an event and
\* details.
C20_AllActionsLogged ==
    [][\A op \in Handlers :
          (Answers(op) /\ last'.resp.status \in {200, 302} /\ last'.puts > last'.audits) =>
              /\ last'.audits >= 1
              /\ \A k \in Events(AUDIT_KV') :
                    DOMAIN AUDIT_KV'[k].value = {"time", "admin", "event", "details"}]_vars

-----------------------------------------------------------------------------
(* Rejections and ownership: C21 - C30 *)

\* C21: a store-secrets call without a credential is answered 401 and one
\* whose credential differs from the configured SETUP_TOKEN is answered 403,
\* whatever its body, and the call ends there with no namespace written.
C21_CredentialRejections ==
    [][\A provided \in Credentials, body \in StoreSecretsBodies :
          StoreSecretsBegin(1, provided, body) =>
              /\ provided = "" =>
                    /\ req'[1] = Idle
                    /\ last'.resp.status = 401
                    /\ UNCHANGED <<SECRETS_KV, SESSIONS_KV, AUDIT_KV>>
              /\ (provided # "" /\ SETUP_TOKEN # Undefined /\ provided # SETUP_TOKEN) =>
                    /\ req'[1] = Idle
                    /\ last'.resp.status = 403
                    /\ UNCHANGED <<SECRETS_KV, SESSIONS_KV, AUDIT_KV>>]_vars

\* A call with a wrong credential has been answered 403 on a worker whose
\* setup had succeeded before.
C21_Witness ==
    /\ last.op = "store-secrets"
    /\ last.resp = json([error |-> "invalid setup token"], 403)
    /\ SetupSucceeded

\* This step is a step of a request in slot 1 whose handler is in ops: its
\* first step, a later one, or the rejection of what it awaits.
StepOf(ops) ==
    IF req[1] # Idle THEN req[1].op \in ops /\ req'[1] # req[1]
    ELSE /\ budget' < budget
         /\ IF req'[1] # Idle THEN req'[1].op \in ops ELSE last'.op \in ops

\* C22: no step of create-checkout, deliver, inbound-email, the audit append
\* or the audit listing changes the Secrets namespace.
C22_SecretsOwnership ==
    [][StepOf({"create-checkout", "deliver", "inbound-email", "audit", "list-audits"})
          => UNCHANGED SECRETS_KV]_vars

\* On a worker that holds secrets a deliver call has generated an artifact.
C22_Witness ==
    /\ SetupSucceeded
    /\ last.op = "deliver"
    /\ last.resp.status = 200
    /\ last.puts > 0

\* The store-secrets call in slot r has passed the credential and body checks
\* and has written nothing yet.
PassedChecks(r) == At(r, "store-secrets", "put") /\ req[r].stored = << >>

\* C23: two store-secrets calls with the valid credential can both be past
\* the checks before either has written, and from then on nothing the other
\* writes stops a call: each of its turns writes its next secret, and it is
\* answered 200 with all its secrets written unless an awaited put rejects.
C23_SetupRace ==
    [][\A r \in Slots :
          /\ (At(r, "store-secrets", "put") /\ req'[r] # req[r] /\ req'[r] # Idle) =>
                LET m == req[r].secrets
                    i == Len(req[r].stored) + 1
                IN /\ Has(SECRETS_KV', SecretKey(m[i][1]))
                   /\ Get(SECRETS_KV', SecretKey(m[i][1])) = m[i][2]
          /\ (InFlight(r) /\ req[r].op = "store-secrets" /\ req'[r] = Idle) =>
                \/ last'.resp = Exception(req[r].pc)
                \/ /\ last'.resp.status = 200
                   /\ last'.resp.body.stored = Keys(req[r].secrets)]_vars

\* Both calls are past the checks and neither has written.
C23_Witness == PassedChecks(1) /\ PassedChecks(2)

\* C24: a create-checkout call whose body names no sku is answered 400 and
\* the call ends there: no session record is put and no audit entry written.
C24_MissingSkuRejected ==
    [][\A body \in CheckoutBodies :
          (body.json /\ "sku" \notin DOMAIN body /\ CreateCheckoutBegin(1, body)) =>
              /\ req'[1] = Idle
              /\ last'.resp = json([error |-> "missing sku"], 400)
              /\ UNCHANGED <<SECRETS_KV, SESSIONS_KV, AUDIT_KV>>]_vars

\* A call without sku has been rejected on a worker that holds a session of
\* an earlier call, and the audit log holds that call's entries only.
C24_Witness ==
    /\ last.op = "create-checkout"
    /\ last.resp = json([error |-> "missing sku"], 400)
    /\ Cardinality(SessionRecords) = 1
    /\ Cardinality(EntriesOf("create_checkout")) = 1

\* C25: a deliver call for a session id under which no session record is
\* stored is answered 404 and the call ends there: no session record, no
\* artifact and no audit entry is written.
C25_UnknownSessionNotFound ==
    [][\A session_id \in SessionIdsAsked :
          (/\ session_id # Null
           /\ session_id \notin { s.session_id : s \in SessionRecords }
           /\ DeliverBegin(1, session_id)) =>
              /\ req'[1] = Idle
              /\ last'.resp = json([error |-> "session not found"], 404)
              /\ UNCHANGED <<SECRETS_KV, SESSIONS_KV, AUDIT_KV>>]_vars

\* An unknown id has been answered 404 while the worker holds sessions, and
\* no deliver call has left an audit entry.
C25_Witness ==
    /\ last.op = "deliver"
    /\ last.resp.status = 404
    /\ SessionRecords # {}
    /\ EntriesOf("deliver_resolved") = {}

\* The number of audit entries of event about session_id after this step.
EntriesAbout(event, session_id) == Cardinality(SessionEvents(AUDIT_KV', event, session_id))

\* C26: create-checkout puts the delivered record only after the pending
\* record and the create_checkout entry are stored; a presold call is answered
\* with the artifact after exactly two audit entries and leaves the record
\* delivered; a call that is not presold is answered after exactly one audit
\* entry and leaves the record pending without an artifact.
C26_CheckoutStepOrder ==
    [][/\ CreateCheckoutDeliver(1) =>
            LET session_id == req[1].session.session_id IN
            /\ Has(SESSIONS_KV, SessionKey(session_id))
            /\ Get(SESSIONS_KV, SessionKey(session_id)).status = "pending"
            /\ Cardinality(SessionEvents(AUDIT_KV, "create_checkout", session_id)) = 1
            /\ SessionEvents(AUDIT_KV, "auto_deliver_presold", session_id) = {}
       /\ (InFlight(1) /\ Answers("create-checkout") /\ last'.resp.status = 200) =>
            LET session_id == req[1].session.session_id
                record == Get(SESSIONS_KV', SessionKey(session_id))
            IN /\ last'.resp.body.session_id = session_id
               /\ EntriesAbout("create_checkout", session_id) = 1
               /\ IF req[1].session.presold
                  THEN /\ last'.audits = 2
                       /\ EntriesAbout("auto_deliver_presold", session_id) = 1
                       /\ record.status = "delivered"
                       /\ record.delivery = DeliveryArtifact(session_id)
                       /\ last'.resp.body.deliver = record.delivery
                  ELSE /\ last'.audits = 1
                       /\ EntriesAbout("auto_deliver_presold", session_id) = 0
                       /\ record.status = "pending"
                       /\ "delivery" \notin DOMAIN record
                       /\ "deliver" \notin DOMAIN last'.resp.body]_vars

\* A presold call has been answered with its artifact after two audit
\* entries, next to the pending session of a call that was not presold.
C26_Witness ==
    /\ last.op = "create-checkout"
    /\ last.resp.status = 200
    /\ last.audits = 2
    /\ "deliver" \in DOMAIN last.resp.body
    /\ \E s \in SessionRecords : ~s.presold /\ s.status = "pending"

\* C27: however create-checkout and deliver calls for a session interleave,
\* every response that carries an artifact carries the one the session record
\* holds, and a put over a record that holds an artifact keeps that artifact:
\* all responses for a session and its record agree.
C27_RacingDeliveriesAgree ==
    [][/\ \A op \in {"deliver", "create-checkout"} :
            (Answers(op) /\ last'.resp.status = 200 /\ "deliver" \in DOMAIN last'.resp.body) =>
                LET key == SessionKey(last'.resp.body.session_id) IN
                /\ Has(SESSIONS_KV', key)
                /\ "delivery" \in DOMAIN Get(SESSIONS_KV', key)
                /\ Get(SESSIONS_KV', key).delivery = last'.resp.body.deliver
       /\ \A k \in DOMAIN SESSIONS_KV :
            "delivery" \in DOMAIN SESSIONS_KV[k].value =>
                /\ "delivery" \in DOMAIN SESSIONS_KV'[k].value
                /\ SESSIONS_KV'[k].value.delivery = SESSIONS_KV[k].value.delivery]_vars

\* Two first deliver calls for one session have both found it without an
\* artifact: one has put the artifact and been answered, the other has put
\* it too and is about to write its audit entry.
C27_Witness ==
    /\ last.op = "deliver"
    /\ last.resp.status = 200
    /\ last.puts > 0
    /\ At(2, "deliver", "audit")
    /\ req[2].session_id = last.resp.body.session_id

\* The keys of the checkout session records of kv.
SessionKeys(kv) == { k \in DOMAIN kv : "session_id" \in DOMAIN kv[k].value }

\* C28: every persisted session record is delivered exactly if it holds a
\* delivery artifact, and then it holds the time of delivery too; and a
\* record that is delivered stays delivered.
C28_StatusMatchesArtifact ==
    [][/\ \A k \in SessionKeys(SESSIONS_KV') :
            LET session == SESSIONS_KV'[k].value IN
            /\ session.status \in {"pending", "delivered"}
            /\ session.status = "delivered" <=> "delivery" \in DOMAIN session
            /\ session.status = "delivered" => "delivered_at" \in DOMAIN session
       /\ \A k \in SessionKeys(SESSIONS_KV) :
            SESSIONS_KV[k].value.status = "delivered" =>
                /\ k \in SessionKeys(SESSIONS_KV')
                /\ SESSIONS_KV'[k].value.status = "delivered"]_vars

\* A session created without presold has been delivered by a deliver call
\* while another session is pending.
C28_Witness ==
    /\ \E s \in SessionRecords : ~s.presold /\ s.status = "delivered"
    /\ \E s \in SessionRecords : s.status = "pending"

\* The keys of the inbound message records of kv.
MessageKeys(kv) == { k \in DOMAIN kv : "payload" \in DOMAIN kv[k].value }

\* C29: an inbound-email call with a JSON body puts one message record under
\* a key that was not in use and leaves every other record of the Sessions
\* namespace as it was; it then writes one audit entry that names the id and
\* answers with that id; and no step of any request changes or removes a
\* message record.
C29_InboundAddsOneMessage ==
    [][/\ \A body \in InboundBodies :
            (body.json /\ InboundEmailBegin(1, body)) =>
                LET id == req'[1].id IN
                /\ id \notin DOMAIN SESSIONS_KV
                /\ DOMAIN SESSIONS_KV' = DOMAIN SESSIONS_KV \cup {id}
                /\ SESSIONS_KV'[id].value = [id |-> id, received_at |-> now, payload |-> body]
                /\ \A k \in DOMAIN SESSIONS_KV : SESSIONS_KV'[k] = SESSIONS_KV[k]
                /\ UNCHANGED <<SECRETS_KV, AUDIT_KV>>
       /\ InboundEmailAudit(1) =>
                /\ Cardinality(DOMAIN AUDIT_KV') = Cardinality(DOMAIN AUDIT_KV) + 1
                /\ \E k \in DOMAIN AUDIT_KV' \ DOMAIN AUDIT_KV :
                      /\ AUDIT_KV'[k].value.event = "inbound_email"
                      /\ AUDIT_KV'[k].value.details = [id |-> req[1].id]
                /\ last'.resp = json([ok |-> TRUE, id |-> req[1].id], 200)
                /\ last'.audits = 1
                /\ UNCHANGED <<SECRETS_KV, SESSIONS_KV>>
       /\ \A k \in MessageKeys(SESSIONS_KV) :
                /\ k \in DOMAIN SESSIONS_KV'
                /\ SESSIONS_KV'[k] = SESSIONS_KV[k]]_vars

\* Two messages have been accepted, the second just now, on a worker that
\* also holds a session record.
C29_Witness ==
    /\ last.op = "inbound-email"
    /\ last.resp.status = 200
    /\ Cardinality(MessageKeys(SESSIONS_KV)) = 2
    /\ Cardinality(EntriesOf("inbound_email")) = 2
    /\ SessionRecords # {}

\* The ids in use that are not the id of a checkout session, and those that
\* are not a state token.
NotSessionIds == { id \in IdsInUse : SessionKey(id) \notin SessionKeys(SESSIONS_KV) }

NotStateTokens == { id \in IdsInUse : StateKey(id) \notin StateRecords(SESSIONS_KV) }

\* C30: the kinds of records of the Sessions namespace do not alias. A deliver
\* call asked with a state token or a message id is answered 404, the record a
\* deliver call reads and the only one it puts is a checkout session record,
\* a callback asked with a session id or a message id is answered 400, the
\* record a callback reads is a state record, and a callback puts nothing
\* into the namespace.
C30_RecordKindsDoNotAlias ==
    [][/\ \A id \in IdsInUse :
            DeliverBegin(1, id) =>
                IF id \in NotSessionIds
                THEN /\ req'[1] = Idle
                     /\ last'.resp = json([error |-> "session not found"], 404)
                     /\ UNCHANGED <<SECRETS_KV, SESSIONS_KV, AUDIT_KV>>
                ELSE req'[1] # Idle => req'[1].session \in SessionRecords
       /\ DeliverPut(1) =>
            /\ DOMAIN SESSIONS_KV' = DOMAIN SESSIONS_KV
            /\ \A k \in DOMAIN SESSIONS_KV :
                  SESSIONS_KV'[k] # SESSIONS_KV[k] =>
                      /\ k = SessionKey(req[1].session_id)
                      /\ k \in SessionKeys(SESSIONS_KV)
       /\ \A code \in CodesAsked \ {Null}, id \in IdsInUse :
            OAuthCallbackBegin(1, code, id) =>
                IF id \in NotStateTokens
                THEN /\ req'[1] = Idle
                     /\ last'.resp = json([error |-> "invalid or expired state"], 400)
                     /\ UNCHANGED <<SECRETS_KV, SESSIONS_KV, AUDIT_KV>>
                ELSE /\ req'[1] # Idle
                     /\ req'[1].provider = SESSIONS_KV[StateKey(id)].value.provider
       /\ StepOf({"oauth-callback"}) => UNCHANGED SESSIONS_KV]_vars

\* The namespace holds a checkout session and a state record and no message,
\* and a deliver call that named an id in use has been answered 404: the id
\* was the state token.
C30_Witness ==
    /\ SessionRecords # {}
    /\ StateRecords(SESSIONS_KV) # {}
    /\ MessageKeys(SESSIONS_KV) = {}
    /\ last.op = "deliver"
    /\ last.resp.status = 404

====
